---- MODULE Spec2Model ----
(***************************************************************************)
(* A model of agent.py, the mock "Responses API" echo server: the text     *)
(* extractor extract_echo_text, the envelope builder                       *)
(* build_responses_payload and the POST /v1/responses handler.             *)
(*                                                                         *)
(* Python strings are sequences of one-character strings.  A parsed JSON   *)
(* value is a pair of its Python type and its payload:                     *)
(*   <<"str", <<chars>>>>       <<"num", integer>>                         *)
(*   <<"bool", BOOLEAN>>        <<"null">>                                 *)
(*   <<"list", <<values>>>>                                                *)
(*   <<"dict", <<[key |-> chars, item |-> value], ...>>>>                  *)
(* A dict keeps its pairs in insertion order, as a Python dict does.       *)
(* A Python call either returns (Ok) or raises (Raise).                    *)
(***************************************************************************)
EXTENDS Integers, Sequences, FiniteSets, TLC

\* ------------------------------------------------------------------ bounds
\* Longest string used as a top-level `input` value.
MaxLen == 3
\* Longest `content` sequence of a message.
MaxParts == 2
\* Longest `input` sequence.
MaxItems == 2
\* Longest `messages` sequence.
MaxMsgs == 3
\* Number of distinct values uuid4() can draw in the model.
NumUuids == 2
\* Latest clock reading time.time() can return in the model.
MaxTime == 1

\* ------------------------------------------------------------------ values
JStr(s) == <<"str", s>>
JNum(n) == <<"num", n>>
JBool(b) == <<"bool", b>>
JNull == <<"null">>
JList(l) == <<"list", l>>
JObj(pairs) == <<"dict", pairs>>
\* The type tag and the payload of a value.
Tag(x) == x[1]
Val(x) == x[2]
Pair(key, val) == [key |-> key, item |-> val]

Ok(val) == [ok |-> TRUE, val |-> val]
Raise(e) == [ok |-> FALSE, exc |-> e]

\* ------------------------------------------------------------------ literals
K_input == <<"i", "n", "p", "u", "t">>
K_messages == <<"m", "e", "s", "s", "a", "g", "e", "s">>
K_content == <<"c", "o", "n", "t", "e", "n", "t">>
K_type == <<"t", "y", "p", "e">>
K_text == <<"t", "e", "x", "t">>
K_role == <<"r", "o", "l", "e">>
K_model == <<"m", "o", "d", "e", "l">>
K_stream == <<"s", "t", "r", "e", "a", "m">>
K_foo == <<"f", "o", "o">>
K_content_type == <<"c", "o", "n", "t", "e", "n", "t", "-", "t", "y", "p", "e">>
S_user == <<"u", "s", "e", "r">>
S_assistant == <<"a", "s", "s", "i", "s", "t", "a", "n", "t">>
S_image == <<"i", "m", "a", "g", "e">>
S_mock_model == <<"m", "o", "c", "k", "-", "m", "o", "d", "e", "l">>
S_gpt_test == <<"g", "p", "t", "-", "t", "e", "s", "t">>
EchoPrefix == <<"E", "c", "h", "o", ".", ".", ".", " ">>
JsonMediaType == <<"a", "p", "p", "l", "i", "c", "a", "t", "i", "o", "n", "/", "j", "s", "o", "n">>
CT_json_utf8 == JsonMediaType \o <<";", " ", "c", "h", "a", "r", "s", "e", "t", "=", "u", "t", "f", "-", "8">>
CT_text_plain == <<"t", "e", "x", "t", "/", "p", "l", "a", "i", "n">>
S_None == <<"N", "o", "n", "e">>
S_True == <<"T", "r", "u", "e">>
S_False == <<"F", "a", "l", "s", "e">>

\* ------------------------------------------------------------------ Python
IsStr(x) == Tag(x) = "str"
IsList(x) == Tag(x) = "list"
IsDict(x) == Tag(x) = "dict"

\* key in d
Contains(d, key) == \E i \in 1..Len(Val(d)) : Val(d)[i].key = key
\* d[key]
GetItem(d, key) == Val(d)[CHOOSE i \in 1..Len(Val(d)) : Val(d)[i].key = key].item
\* d.get(key, default)
Get(d, key, default) == IF Contains(d, key) THEN GetItem(d, key) ELSE default
\* x == "literal"
EqStr(x, s) == IsStr(x) /\ Val(x) = s
\* bool(x)
Truthy(x) ==
  CASE Tag(x) = "null" -> FALSE
    [] Tag(x) = "bool" -> Val(x)
    [] Tag(x) = "num" -> Val(x) # 0
    [] OTHER -> Len(Val(x)) > 0
\* s.startswith(prefix)
StartsWith(s, prefix) ==
  Len(s) >= Len(prefix) /\ SubSeq(s, 1, Len(prefix)) = prefix

\* The concatenation of a sequence of strings, sep between neighbours.
RECURSIVE Concat(_, _)
Concat(sep, strs) ==
  IF Len(strs) = 0 THEN <<>>
  ELSE IF Len(strs) = 1 THEN strs[1]
  ELSE strs[1] \o sep \o Concat(sep, Tail(strs))

\* sep.join(parts): TypeError unless every part is a str.
Join(sep, parts) ==
  IF \A i \in 1..Len(parts) : IsStr(parts[i])
  THEN Ok(JStr(Concat(sep, [i \in 1..Len(parts) |-> Val(parts[i])])))
  ELSE Raise("TypeError")

\* str(n) of an int.
DigitChars == <<"0", "1", "2", "3", "4", "5", "6", "7", "8", "9">>
RECURSIVE NatStr(_)
NatStr(n) ==
  IF n < 10 THEN <<DigitChars[n + 1]>>
  ELSE NatStr(n \div 10) \o <<DigitChars[(n % 10) + 1]>>
IntStr(n) == IF n < 0 THEN <<"-">> \o NatStr(-n) ELSE NatStr(n)

\* repr(s) of a str: single quotes unless s has a ' and no ".
EscapeChar(c, quote) ==
  CASE c = "\\" -> <<"\\", "\\">>
    [] c = "\n" -> <<"\\", "n">>
    [] c = "\t" -> <<"\\", "t">>
    [] c = "\r" -> <<"\\", "r">>
    [] c = quote -> <<"\\", c>>
    [] OTHER -> <<c>>
StrRepr(s) ==
  LET hasSingle == \E i \in 1..Len(s) : s[i] = "'"
      hasDouble == \E i \in 1..Len(s) : s[i] = "\""
      quote == IF hasSingle /\ ~hasDouble THEN "\"" ELSE "'"
  IN <<quote>> \o Concat(<<>>, [i \in 1..Len(s) |-> EscapeChar(s[i], quote)]) \o <<quote>>

\* repr(x) of a parsed JSON value.
RECURSIVE Repr(_)
Repr(x) ==
  CASE Tag(x) = "str" -> StrRepr(Val(x))
    [] Tag(x) = "num" -> IntStr(Val(x))
    [] Tag(x) = "bool" -> IF Val(x) THEN S_True ELSE S_False
    [] Tag(x) = "null" -> S_None
    [] Tag(x) = "list" ->
         <<"[">> \o Concat(<<",", " ">>, [i \in 1..Len(Val(x)) |-> Repr(Val(x)[i])]) \o <<"]">>
    [] Tag(x) = "dict" ->
         <<"{">> \o Concat(<<",", " ">>,
                           [i \in 1..Len(Val(x)) |->
                              StrRepr(Val(x)[i].key) \o <<":", " ">> \o Repr(Val(x)[i].item)])
                 \o <<"}">>

\* str(x): a str is itself, anything else its repr.
Str(x) == IF IsStr(x) THEN Val(x) ELSE Repr(x)

\* The characters str.split() splits on.
Whitespace == {" ", "\n", "\t", "\r", "\f"}

\* Faulty variant of Split: s.split(" "), which cuts at every single space
\* and keeps the empty pieces.
RECURSIVE SplitOnSpaceFrom(_, _, _, _)
SplitOnSpaceFrom(s, i, cur, out) ==
  IF i > Len(s) THEN Append(out, cur)
  ELSE IF s[i] = " " THEN SplitOnSpaceFrom(s, i + 1, <<>>, Append(out, cur))
  ELSE SplitOnSpaceFrom(s, i + 1, Append(cur, s[i]), out)
Split_OnSingleSpace(s) == SplitOnSpaceFrom(s, 1, <<>>, <<>>)

\* s.split(): the maximal runs of non-whitespace characters, in order.
RECURSIVE SplitFrom(_, _, _, _)
SplitFrom(s, i, cur, out) ==
  LET flushed == IF Len(cur) > 0 THEN Append(out, cur) ELSE out
  IN IF i > Len(s) THEN flushed
     ELSE IF s[i] \in Whitespace THEN SplitFrom(s, i + 1, <<>>, flushed)
     ELSE SplitFrom(s, i + 1, Append(cur, s[i]), out)
Split(s) == SplitFrom(s, 1, <<>>, <<>>)

\* ------------------------------------------------------------------ extract_echo_text
\* The fragments the inner loop over item["content"] appends.
RECURSIVE InputContentParts(_)
InputContentParts(content) ==
  IF Len(content) = 0 THEN <<>>
  ELSE LET c == Head(content)
           appended ==
             IF IsDict(c) /\ EqStr(Get(c, K_type, JNull), K_text)
             THEN <<Get(c, K_text, JStr(<<>>))>>
             ELSE IF IsStr(c) THEN <<c>>
             ELSE <<>>
       IN appended \o InputContentParts(Tail(content))

\* Faulty variant of ItemParts: a direct content part {"type": "text", ...}
\* is not recognised.
ItemParts_NoDirectPart(item) ==
  IF IsDict(item)
  THEN IF Contains(item, K_content) /\ IsList(GetItem(item, K_content))
       THEN InputContentParts(Val(GetItem(item, K_content)))
       ELSE <<>>
  ELSE IF IsStr(item) THEN <<item>>
  ELSE <<>>

\* The fragments one item of the `input` list appends.
ItemParts(item) ==
  IF IsDict(item)
  THEN IF Contains(item, K_content) /\ IsList(GetItem(item, K_content))
       THEN InputContentParts(Val(GetItem(item, K_content)))
       ELSE IF EqStr(Get(item, K_type, JNull), K_text)
       THEN <<Get(item, K_text, JStr(<<>>))>>
       ELSE <<>>
  ELSE IF IsStr(item) THEN <<item>>
  ELSE <<>>

\* parts after the loop over the `input` list.
RECURSIVE InputParts(_)
InputParts(inp) ==
  IF Len(inp) = 0 THEN <<>>
  ELSE ItemParts(Head(inp)) \o InputParts(Tail(inp))

\* [p for p in parts if p is not None]
NotNone(parts) == SelectSeq(parts, LAMBDA p : Tag(p) # "null")

\* Faulty variant of ExtractFromInput: a string input is returned as its
\* repr, quotes and escapes included.
ExtractFromInput_Repr(inp) ==
  IF IsList(inp) THEN Join(<<"\n">>, NotNone(InputParts(Val(inp))))
  ELSE Ok(JStr(Repr(inp)))

\* The `input` branch.
ExtractFromInput(inp) ==
  IF IsStr(inp) THEN Ok(inp)
  ELSE IF IsList(inp) THEN Join(<<"\n">>, NotNone(InputParts(Val(inp))))
  ELSE Ok(JStr(Str(inp)))

\* The fragments the loop over last["content"] appends.
RECURSIVE MessageContentParts(_)
MessageContentParts(content) ==
  IF Len(content) = 0 THEN <<>>
  ELSE LET c == Head(content)
           appended ==
             IF IsDict(c) /\ EqStr(Get(c, K_type, JNull), K_text)
             THEN <<Get(c, K_text, JStr(<<>>))>>
             ELSE IF IsStr(c) THEN <<c>>
             ELSE <<>>
       IN appended \o MessageContentParts(Tail(content))

\* user_msgs
UserMsgs(messages) ==
  SelectSeq(messages, LAMBDA m : IsDict(m) /\ EqStr(Get(m, K_role, JNull), S_user))

\* Faulty variant of LastMessage: the last message whatever its role.
LastMessage_LastOverall(messages) ==
  IF Len(messages) > 0 THEN messages[Len(messages)] ELSE JNull

\* last: the last user message, else the last message, else None.
LastMessage(messages) ==
  LET user_msgs == UserMsgs(messages)
  IN IF Len(user_msgs) > 0 THEN user_msgs[Len(user_msgs)]
     ELSE IF Len(messages) > 0 THEN messages[Len(messages)]
     ELSE JNull

\* The `messages` branch; last.get raises on a truthy non-dict.
ExtractFromMessages(messages) ==
  IF IsList(messages)
  THEN LET last == LastMessage(Val(messages))
       IN IF Truthy(last)
          THEN IF ~IsDict(last) THEN Raise("AttributeError")
               ELSE LET content == Get(last, K_content, JNull)
                    IN IF IsList(content)
                       THEN Join(<<"\n">>, MessageContentParts(Val(content)))
                       ELSE IF IsStr(content) THEN Ok(content)
                       ELSE Ok(JStr(<<>>))
          ELSE Ok(JStr(<<>>))
  ELSE Ok(JStr(<<>>))

\* Faulty variant of extract_echo_text: a `messages` that is not a sequence
\* falls through to the stringified request.
extract_echo_text_StrFallback(req_json) ==
  IF Contains(req_json, K_input) THEN ExtractFromInput(GetItem(req_json, K_input))
  ELSE IF Contains(req_json, K_messages) /\ IsList(GetItem(req_json, K_messages))
  THEN ExtractFromMessages(GetItem(req_json, K_messages))
  ELSE Ok(JStr(Str(req_json)))

extract_echo_text(req_json) ==
  IF Contains(req_json, K_input) THEN ExtractFromInput(GetItem(req_json, K_input))
  ELSE IF Contains(req_json, K_messages)
  THEN ExtractFromMessages(GetItem(req_json, K_messages))
  ELSE Ok(JStr(Str(req_json)))

\* ------------------------------------------------------------------ build_responses_payload
\* output_text
OutputText(echo_text) == EchoPrefix \o echo_text

\* len(output_text.split())
TokenCount(output_text) == Len(Split(output_text))

\* uuid is the value uuid4() drew and now the clock reading.
build_responses_payload(echo_text, mdl, uuid, now) ==
  LET output_text == OutputText(echo_text)
  IN [id |-> <<"resp_", uuid>>,
      object |-> "responses",
      created |-> now,
      model |-> mdl,
      output |-> << [type |-> "message",
                     role |-> "assistant",
                     content |-> << [type |-> "text", text |-> output_text] >>] >>,
      usage |-> [input_tokens |-> 0,
                 output_tokens |-> TokenCount(output_text),
                 total_tokens |-> TokenCount(output_text)]]

\* ------------------------------------------------------------------ requests
Alphabet == {"a", "b", " ", "\n"}
SeqsUpTo(S, n) == UNION {[1..k -> S] : k \in 0..n}
Strs(n) == SeqsUpTo(Alphabet, n)

\* A raw body that is not JSON, such as the truncated {"input":
Malformed == <<"malformed">>

Obj1(k1, v1) == JObj(<<Pair(k1, v1)>>)
Obj2(k1, v1, k2, v2) == JObj(<<Pair(k1, v1), Pair(k2, v2)>>)
TextPart(text) == Obj2(K_type, JStr(K_text), K_text, text)
UserMsg(content) == Obj2(K_role, JStr(S_user), K_content, content)

\* Values of a part's `text`: strings, null and a number.
TextVals == {JStr(<<>>), JStr(<<"a">>), JStr(<<"b">>), JNull, JNum(5)}

\* Elements of a `content` sequence: text parts, a text part without text,
\* a part of another type, plain strings and a number.
Parts ==
  {TextPart(text) : text \in TextVals}
    \cup {Obj1(K_type, JStr(K_text)),
          Obj2(K_type, JStr(S_image), K_text, JStr(<<"a">>)),
          JStr(<<"a">>), JStr(<<"b">>), JNum(7)}
ContentLists == {JList(l) : l \in SeqsUpTo(Parts, MaxParts)}

\* Items of an `input` sequence.
Items ==
  {JStr(<<"a">>), JStr(<<"b">>),
   TextPart(JStr(<<"a">>)), TextPart(JNull), TextPart(JNum(5)),
   Obj1(K_type, JStr(K_text)),
   UserMsg(JList(<<JStr(<<"b">>), TextPart(JStr(<<"a">>))>>)),
   JObj(<<Pair(K_content, JStr(<<"a">>)), Pair(K_type, JStr(K_text)),
          Pair(K_text, JStr(<<"b">>))>>),
   Obj2(K_type, JStr(S_image), K_text, JStr(<<"a">>)),
   JNum(7)}
InputLists == {JList(l) : l \in SeqsUpTo(Items, MaxItems)}

\* Elements of a `messages` sequence.
Msgs ==
  {UserMsg(JStr(<<"a">>)), UserMsg(JStr(<<"b">>)),
   Obj2(K_role, JStr(S_assistant), K_content, JStr(<<"a", "b">>)),
   Obj1(K_role, JStr(S_user)),
   Obj1(K_content, JStr(<<"b", "a">>)),
   JObj(<<>>), JStr(<<"a">>), JNull}
MsgLists == {JList(l) : l \in SeqsUpTo(Msgs, MaxMsgs)}

\* Values of `input` or `messages` that are neither a string nor a sequence.
Scalars == {JNum(5), JBool(TRUE), JNull, Obj1(K_foo, JNum(1))}

\* Bodies that get every `model` value and every content type.
SmallBodies ==
  {Obj1(K_input, JStr(<<"a", " ", "b">>)),
   Obj1(K_input, JList(<<JStr(<<"a">>), JStr(<<"b">>)>>)),
   Obj1(K_messages, JList(<<UserMsg(JStr(<<"a">>))>>)),
   Obj1(K_messages, JList(<<JStr(<<"a">>)>>)),
   Obj2(K_input, JStr(<<"a">>), K_messages, JList(<<UserMsg(JStr(<<"b">>))>>)),
   Obj2(K_messages, JList(<<UserMsg(JStr(<<"b">>))>>), K_input, JList(<<JStr(<<"a">>)>>)),
   Obj2(K_input, JStr(<<"a">>), K_stream, JBool(TRUE)),
   JObj(<<>>),
   Obj1(K_foo, JNum(1)),
   Obj1(K_foo, JStr(<<"a", "\n">>)),
   Obj1(K_stream, JBool(TRUE))}
    \cup {Obj1(K_input, x) : x \in Scalars}
    \cup {Obj1(K_messages, x) : x \in Scalars \cup {JStr(<<"a">>)}}

ModelVals == {JStr(S_gpt_test), JStr(<<>>), JNull, JNum(5)}
WithModel(body, mdl) == JObj(<<Pair(K_model, mdl)>> \o Val(body))

\* Bodies that parse as JSON but not to an object.
NonObjects == {JList(<<>>), JList(<<JNum(1)>>), JStr(<<"a">>), JNum(5), JNull}

ObjectBodies ==
  {Obj1(K_input, JStr(str)) : str \in Strs(MaxLen)}
    \cup {Obj1(K_input, l) : l \in InputLists}
    \cup {Obj1(K_input, JList(<<Obj1(K_content, c)>>)) : c \in ContentLists}
    \cup {Obj1(K_messages, JList(<<UserMsg(c)>>)) : c \in ContentLists}
    \cup {Obj1(K_messages, l) : l \in MsgLists}
    \cup SmallBodies
    \cup {WithModel(b, mdl) : b \in SmallBodies, mdl \in ModelVals}

Headers(content_type) == Obj1(K_content_type, JStr(content_type))
NoHeaders == JObj(<<>>)

Requests ==
  {[headers |-> Headers(JsonMediaType), body |-> b] :
     b \in ObjectBodies \cup NonObjects \cup {Malformed}}
    \cup {[headers |-> h, body |-> b] :
            h \in {Headers(CT_json_utf8), Headers(CT_text_plain), NoHeaders},
            b \in SmallBodies \cup {WithModel(sb, JStr(S_gpt_test)) : sb \in SmallBodies}
                    \cup NonObjects \cup {Malformed}}

\* ------------------------------------------------------------------ the handler
VARIABLES request, pc, req_json, model, stream, echo_text, response
vars == <<request, pc, req_json, model, stream, echo_text, response>>

\* A local not yet assigned, and a response not yet sent.
Unset == <<"unset">>
NoResponse == [status |-> 0]

\* await request.json(): the parsed body, or an exception on a body that is
\* not JSON.
RequestJson(req) ==
  IF Tag(req.body) = "malformed" THEN Raise("JSONDecodeError") ELSE Ok(req.body)

\* The framework's answer to an exception the handler lets through.
InternalServerError(exc) == [status |-> 500, exc |-> exc]

Init ==
  /\ request \in Requests
  /\ pc = "parse"
  /\ req_json = Unset
  /\ model = Unset
  /\ stream = Unset
  /\ echo_text = Unset
  /\ response = NoResponse

\* The try block: parse the body when the content type is JSON, else {}.
ParseBody ==
  /\ pc = "parse"
  /\ LET content_type == Val(Get(request.headers, K_content_type, JStr(<<>>)))
         parsed == IF StartsWith(content_type, JsonMediaType)
                   THEN RequestJson(request)
                   ELSE Ok(JObj(<<>>))
     IN IF parsed.ok
        THEN /\ req_json' = parsed.val
             /\ pc' = "fields"
             /\ response' = response
        ELSE /\ response' = [status |-> 400,
                             body |-> [error |-> <<"Invalid JSON: ", parsed.exc>>]]
             /\ pc' = "done"
             /\ req_json' = req_json
  /\ UNCHANGED <<request, model, stream, echo_text>>

\* Faulty variant of ModelOf: the request's model is ignored.
ModelOf_AlwaysDefault(body) == JStr(S_mock_model)

\* req_json.get("model", "mock-model")
ModelOf(body) == Get(body, K_model, JStr(S_mock_model))

\* bool(req_json.get("stream", False))
StreamOf(body) == Truthy(Get(body, K_stream, JBool(FALSE)))

\* model and _stream; .get raises on a body that is not an object.
ReadFields ==
  /\ pc = "fields"
  /\ IF IsDict(req_json)
     THEN /\ model' = ModelOf(req_json)
          /\ stream' = StreamOf(req_json)
          /\ pc' = "extract"
          /\ response' = response
     ELSE /\ response' = InternalServerError("AttributeError")
          /\ pc' = "done"
          /\ UNCHANGED <<model, stream>>
  /\ UNCHANGED <<request, req_json, echo_text>>

Extract ==
  /\ pc = "extract"
  /\ LET result == extract_echo_text(req_json)
     IN IF result.ok
        THEN /\ echo_text' = Val(result.val)
             /\ pc' = "build"
             /\ response' = response
        ELSE /\ response' = InternalServerError(result.exc)
             /\ pc' = "done"
             /\ echo_text' = echo_text
  /\ UNCHANGED <<request, req_json, model, stream>>

BuildAndRespond ==
  /\ pc = "build"
  /\ \E uuid \in 1..NumUuids, now \in 0..MaxTime :
       response' = [status |-> 200,
                    body |-> build_responses_payload(echo_text, model, uuid, now)]
  /\ pc' = "done"
  /\ UNCHANGED <<request, req_json, model, stream, echo_text>>

Next == ParseBody \/ ReadFields \/ Extract \/ BuildAndRespond

Spec == Init /\ [][Next]_vars

\* ------------------------------------------------------------------ properties
\* What the properties read off a request and its response.
HasJsonContentType ==
  request.headers \in {Headers(JsonMediaType), Headers(CT_json_utf8)}
BodyIsObject == Tag(request.body) = "dict"
HasKey(obj, key) == \E i \in 1..Len(Val(obj)) : Val(obj)[i].key = key
ValueOf(obj, key) == Val(obj)[CHOOSE i \in 1..Len(Val(obj)) : Val(obj)[i].key = key].item
\* The object the handler works on: the body, or {} when the content type
\* is not JSON.
EffectiveBody == IF HasJsonContentType THEN request.body ELSE JObj(<<>>)
EchoLiteral == <<"E", "c", "h", "o", ".", ".", ".", " ">>
OutputTextOf(resp) == resp.body.output[1].content[1].text
\* The handler answered 200 with an envelope that echoes str.
Echoed(str) ==
  /\ response.status = 200
  /\ echo_text = str
  /\ Len(response.body.output) = 1
  /\ Len(response.body.output[1].content) = 1
  /\ OutputTextOf(response) = EchoLiteral \o str

\* C1: a JSON request whose body is exactly {"input": s}, s a string (the
\* empty one included), is answered 200 and the text of the single output
\* content part is "Echo... " followed by s, unchanged.
C1_StringInputEchoed ==
  (/\ pc = "done"
   /\ HasJsonContentType
   /\ BodyIsObject
   /\ Len(Val(request.body)) = 1
   /\ Val(request.body)[1].key = K_input
   /\ Tag(Val(request.body)[1].item) = "str")
    => Echoed(Val(Val(request.body)[1].item))

C1_Witness ==
  /\ pc = "done"
  /\ request = [headers |-> Headers(JsonMediaType),
                body |-> Obj1(K_input, JStr(<<"a", "\n", "b">>))]
  /\ response.status = 200
  /\ OutputTextOf(response) = <<"E", "c", "h", "o", ".", ".", ".", " ", "a", "\n", "b">>

\* The body the handler works on is an object without `input` whose
\* `messages` is a sequence.
MessagesRequest ==
  /\ Tag(EffectiveBody) = "dict"
  /\ ~HasKey(EffectiveBody, K_input)
  /\ HasKey(EffectiveBody, K_messages)
  /\ Tag(ValueOf(EffectiveBody, K_messages)) = "list"
HasUserRole(m) ==
  /\ Tag(m) = "dict"
  /\ \E i \in 1..Len(Val(m)) : Val(m)[i].key = K_role /\ Val(m)[i].item = JStr(S_user)
\* The element the text is taken from: the last with role "user", else the
\* last overall.
SelectedMessage(msgs) ==
  IF \E i \in 1..Len(msgs) : HasUserRole(msgs[i])
  THEN msgs[CHOOSE i \in 1..Len(msgs) :
              HasUserRole(msgs[i]) /\ \A j \in (i + 1)..Len(msgs) : ~HasUserRole(msgs[j])]
  ELSE msgs[Len(msgs)]

InputListRequest ==
  /\ Tag(EffectiveBody) = "dict"
  /\ HasKey(EffectiveBody, K_input)
  /\ Tag(ValueOf(EffectiveBody, K_input)) = "list"
IsTextObject(x) ==
  /\ Tag(x) = "dict"
  /\ \E i \in 1..Len(Val(x)) : Val(x)[i].key = K_type /\ Val(x)[i].item = JStr(K_text)
TextOrEmpty(x) == IF HasKey(x, K_text) THEN ValueOf(x, K_text) ELSE JStr(<<>>)
RECURSIVE Flatten(_)
Flatten(seqs) ==
  IF Len(seqs) = 0 THEN <<>>
  ELSE Flatten(SubSeq(seqs, 1, Len(seqs) - 1)) \o seqs[Len(seqs)]
\* What one element of a content sequence contributes.
ElementFragments(c) ==
  IF IsTextObject(c) THEN <<TextOrEmpty(c)>>
  ELSE IF Tag(c) = "str" THEN <<c>>
  ELSE <<>>
ContentFragments(content) ==
  Flatten([i \in 1..Len(content) |-> ElementFragments(content[i])])
\* What one item of the input sequence contributes.
ItemFragments(item) ==
  IF Tag(item) = "str" THEN <<item>>
  ELSE IF Tag(item) = "dict" /\ HasKey(item, K_content) /\ Tag(ValueOf(item, K_content)) = "list"
  THEN ContentFragments(Val(ValueOf(item, K_content)))
  ELSE IF IsTextObject(item) THEN <<TextOrEmpty(item)>>
  ELSE <<>>
Fragments(items) == Flatten([i \in 1..Len(items) |-> ItemFragments(items[i])])
AllStrings(frags) == \A i \in 1..Len(frags) : Tag(frags[i]) = "str"
RECURSIVE NewlineJoin(_)
NewlineJoin(frags) ==
  IF Len(frags) = 0 THEN <<>>
  ELSE IF Len(frags) = 1 THEN Val(frags[1])
  ELSE NewlineJoin(SubSeq(frags, 1, Len(frags) - 1)) \o <<"\n">> \o Val(frags[Len(frags)])

C4_OnlyMalformedJsonFails ==
  pc = "done"
    => IF HasJsonContentType /\ Tag(request.body) = "malformed"
       THEN response.status = 400 /\ "error" \in DOMAIN response.body
       ELSE response.status = 200 /\ "output" \in DOMAIN response.body

\* C5: extract_echo_text never fails: for every parsed JSON object, whatever
\* the types inside it, the extraction returns a string.
C5_ExtractionNeverFails ==
  (pc = "done" /\ Tag(EffectiveBody) = "dict")
    => response.status = 200

\* The number of whitespace-delimited non-empty tokens of a string: the
\* positions where a token starts.
Blank == {" ", "\n", "\t", "\r", "\f"}
WordCount(str) ==
  Cardinality({i \in 1..Len(str) :
                 str[i] \notin Blank /\ (i = 1 \/ str[i - 1] \in Blank)})

\* C6: in every envelope usage.input_tokens is 0 and usage.output_tokens
\* and usage.total_tokens both equal the number of whitespace-delimited
\* non-empty tokens of "Echo... " followed by the extracted text.
C6_UsageCountsWords ==
  (pc = "done" /\ response.status = 200)
    => /\ response.body.usage.input_tokens = 0
       /\ response.body.usage.output_tokens = WordCount(EchoLiteral \o echo_text)
       /\ response.body.usage.total_tokens = WordCount(EchoLiteral \o echo_text)
       /\ OutputTextOf(response) = EchoLiteral \o echo_text

C6_Witness ==
  /\ pc = "done"
  /\ response.status = 200
  /\ echo_text = <<"a", " ", "b">>
  /\ response.body.usage = [input_tokens |-> 0, output_tokens |-> 3, total_tokens |-> 3]

\* C7: in every 200 answer the envelope's model is the body's `model` value
\* when the body has one, else "mock-model" (also when the body counts as
\* empty because the content type is not JSON).
C7_ModelEchoed ==
  (pc = "done" /\ response.status = 200)
    => IF HasKey(EffectiveBody, K_model)
       THEN response.body.model = ValueOf(EffectiveBody, K_model)
       ELSE response.body.model = JStr(<<"m", "o", "c", "k", "-", "m", "o", "d", "e", "l">>)

C7_Witness ==
  /\ pc = "done"
  /\ HasJsonContentType
  /\ request.body = WithModel(Obj1(K_input, JStr(<<"a", " ", "b">>)), JStr(S_gpt_test))
  /\ response.status = 200
  /\ response.body.model = JStr(<<"g", "p", "t", "-", "t", "e", "s", "t">>)

\* C9 as stated: without `input` and without a `messages` that is a
\* sequence, the result is the string representation of the whole request
\* object, which is non-empty.
C9_StringifiedUnlessMessagesSequence ==
  (/\ pc = "done"
   /\ Tag(EffectiveBody) = "dict"
   /\ ~HasKey(EffectiveBody, K_input)
   /\ ~(HasKey(EffectiveBody, K_messages) /\ Tag(ValueOf(EffectiveBody, K_messages)) = "list"))
    => Echoed(Str(EffectiveBody)) /\ Len(echo_text) > 0

\* C9 amended: with neither an `input` nor a `messages` field the result is
\* the string representation of the whole request object, which is
\* non-empty ({"foo": 1} gives {'foo': 1}); with a `messages` field that is
\* not a sequence (and no `input`) the result is the empty string.
C9_StringifiedWhenNeitherField ==
  (/\ pc = "done"
   /\ Tag(EffectiveBody) = "dict"
   /\ ~HasKey(EffectiveBody, K_input))
    => /\ ~HasKey(EffectiveBody, K_messages)
            => /\ Echoed(Str(EffectiveBody))
               /\ Len(echo_text) > 0
               /\ EffectiveBody = Obj1(K_foo, JNum(1))
                    => echo_text = <<"{", "'", "f", "o", "o", "'", ":", " ", "1", "}">>
       /\ (HasKey(EffectiveBody, K_messages)
             /\ Tag(ValueOf(EffectiveBody, K_messages)) # "list")
            => Echoed(<<>>)

C9_Witness ==
  /\ pc = "done"
  /\ request = [headers |-> Headers(JsonMediaType), body |-> Obj1(K_foo, JNum(1))]
  /\ response.status = 200
  /\ echo_text = <<"{", "'", "f", "o", "o", "'", ":", " ", "1", "}">>

\* How a request ends: the text echoed, or the exception raised.
Outcome(result) ==
  IF result.ok
  THEN response.status = 200 /\ echo_text = Val(result.val)
  ELSE response.status = 500 /\ response.exc = result.exc

\* C10: the messages branch extracts content parts as the input branch
\* does: for every content sequence C, {"messages": [{"role": "user",
\* "content": C}]} ends as {"input": [{"content": C}]} does.
C10_BranchesAgreeOnContent ==
  \A c \in ContentLists :
    (pc = "done" /\ HasJsonContentType
       /\ request.body = Obj1(K_messages, JList(<<UserMsg(c)>>)))
      => Outcome(extract_echo_text(Obj1(K_input, JList(<<Obj1(K_content, c)>>))))

====
